---------------------------- MODULE Spec2Model ----------------------------
(***************************************************************************)
(* State-machine model of the ChineseLearningApp controller                *)
(* (src/static/app.js): lesson loading, navigation, audio playback with    *)
(* its suspended existence checks and play starts, practice answer         *)
(* checking and the progress counter.                                      *)
(*                                                                         *)
(* Texts are sequences of one-character tokens.  A character outside       *)
(* ASCII is written as the token "U+XXXX" of its code point.               *)
(***************************************************************************)
EXTENDS Integers, Sequences, FiniteSets

(***************************************************************************)
(* Bounds of the model.                                                    *)
(***************************************************************************)
\* Audio requests (playAudio / playFrenchAudio calls that create an Audio
\* object) in one behaviour.
MaxRequests == 2

\* Longest text enumerated character by character for the answer field and
\* for a lesson's pinyin.
MaxLen == 2

(***************************************************************************)
(* Lesson texts.                                                           *)
(***************************************************************************)
Sample1Chinese ==
    <<"U+6211", "U+53EB", "J", "a", "m", "e", "s", "U+FF0C", "U+6211",
      "U+662F", "U+82F1", "U+56FD", "U+4EBA", "U+3002">>
Sample1Pinyin ==
    <<"W", "U+01D2", " ", "j", "i", "U+00E0", "o", " ", "J", "a", "m", "e",
      "s", ",", " ", "w", "U+01D2", " ", "s", "h", "U+00EC", " ", "Y",
      "U+012B", "n", "g", "g", "u", "U+00F3", " ", "r", "U+00E9", "n", ".">>
Sample2Chinese ==
    <<"U+6211", "U+662F", "U+5750", "U+98DE", "U+673A", "U+6765", "U+7684",
      "U+4E0A", "U+6D77", "U+3002">>
Sample2Pinyin ==
    <<"W", "U+01D2", " ", "s", "h", "U+00EC", " ", "z", "u", "U+00F2", " ",
      "f", "U+0113", "i", "j", "U+012B", " ", "l", "U+00E1", "i", " ", "d",
      "e", " ", "S", "h", "U+00E0", "n", "g", "h", "U+01CE", "i", ".">>
Sample3Chinese ==
    <<"U+6211", "U+4ECE", "U+4ECA", "U+5E74", "U+4E8C", "U+6708", "U+5F00",
      "U+59CB", "U+5728", "U+4E0A", "U+6D77", "U+5DE5", "U+4F5C", "U+3002">>
Sample3Pinyin ==
    <<"W", "U+01D2", " ", "c", "U+00F3", "n", "g", " ", "j", "U+012B", "n",
      "n", "i", "U+00E1", "n", " ", "U+00E8", "r", "y", "u", "U+00E8", " ",
      "k", "U+0101", "i", "s", "h", "U+01D0", " ", "z", "U+00E0", "i", " ",
      "S", "h", "U+00E0", "n", "g", "h", "U+01CE", "i", " ", "g", "U+014D",
      "n", "g", "z", "u", "U+00F2", ".">>
Cmd1Chinese ==
    <<"U+8BF7", "U+5F00", "U+542F", "U+524D", "U+7167", "U+706F">>
Cmd1Pinyin ==
    <<"q", "U+01D0", "n", "g", " ", "k", "U+0101", "i", " ", "q", "U+01D0",
      " ", "q", "i", "U+00E1", "n", " ", "z", "h", "U+00E0", "o", " ", "d",
      "U+0113", "n", "g">>
Cmd3Chinese ==
    <<"U+4E0E", "U+673A", "U+52A8", "U+8F66", "U+4F1A", "U+8F66">>
Cmd3Pinyin ==
    <<"y", "U+01D4", " ", "j", "U+012B", " ", "d", "U+00F2", "n", "g", " ",
      "c", "h", "U+0113", " ", "h", "u", "U+00EC", " ", "c", "h", "U+0113">>
Cmd6Chinese ==
    <<"U+901A", "U+8FC7", "U+6025", "U+5F2F">>
Cmd6Pinyin ==
    <<"t", "U+014D", "n", "g", " ", "g", "u", "U+00F2", " ", "j", "U+00ED",
      " ", "w", "U+0101", "n">>

\* A French translation (the text itself is display-only).
FrenchText == <<"f", "r">>

(***************************************************************************)
(* Lesson records.  A field a record does not carry (french,               *)
(* french_audio_file) is the empty text / empty string: both are falsy in  *)
(* the code's tests, like undefined.                                       *)
(***************************************************************************)
Lesson(id, chinese, pinyin, audio, french, frenchAudio) ==
    [id |-> id, chinese |-> chinese, pinyin |-> pinyin, audio_file |-> audio,
     french |-> french, french_audio_file |-> frenchAudio]

\* this.currentLesson = null (constructor); also lessons[NaN] = undefined.
NoLesson == Lesson(0, <<>>, <<>>, "", <<>>, "")

getSampleLessons ==
    << Lesson(1, Sample1Chinese, Sample1Pinyin, "lesson_01.mp3", <<>>, ""),
       Lesson(2, Sample2Chinese, Sample2Pinyin, "lesson_02.mp3", <<>>, ""),
       Lesson(3, Sample3Chinese, Sample3Pinyin, "lesson_03.mp3", <<>>, "") >>

(***************************************************************************)
(* Outcomes of fetching and parsing ../data/lessons.json.  kind:           *)
(*   "network"   fetch rejects                                             *)
(*   "http"      response.ok is false                                      *)
(*   "badjson"   response.json() rejects                                   *)
(*   "nolessons" the document has no lessons member (data.lessons is       *)
(*               undefined)                                                *)
(*   "notarray"  data.lessons is an object that is not an array            *)
(*   "ok"        data.lessons is an array of lesson records                *)
(***************************************************************************)
Doc(kind, total, ls) == [kind |-> kind, total_lessons |-> total, lessons |-> ls]

DocDriving ==
    Doc("ok", 2,
        << Lesson(1, Cmd1Chinese, Cmd1Pinyin, "cmd_01.mp3", FrenchText, "cmd_01_fr.mp3"),
           Lesson(6, Cmd6Chinese, Cmd6Pinyin, "cmd_06.mp3", FrenchText, "") >>)

\* A document whose total_lessons is not the length of its lessons array.
DocMiscounted ==
    Doc("ok", 2, << Lesson(3, Cmd3Chinese, Cmd3Pinyin, "cmd_03.mp3", <<>>, "") >>)

DocEmpty == Doc("ok", 0, << >>)

Documents ==
    { DocDriving, DocMiscounted, DocEmpty,
      Doc("network", 0, << >>), Doc("http", 0, << >>), Doc("badjson", 0, << >>),
      Doc("nolessons", 1, << >>), Doc("notarray", 1, << >>) }

(***************************************************************************)
(* Texts for the answer comparison: every text of at most MaxLen           *)
(* characters over a letter in both cases, a whitespace character and two  *)
(* characters of the punctuation class, and four longer texts: a pinyin    *)
(* phrase, the same phrase in another case, spacing and punctuation, the   *)
(* phrase without its diacritics, and a phrase with a full stop standing   *)
(* between two spaces.                                                     *)
(***************************************************************************)
Alphabet == {"W", "w", " ", ".", "U+FF0C"}

TextsUpTo(n) == UNION { [1..k -> Alphabet] : k \in 0..n }

PhraseText == <<"W", "U+01D2", " ", "s", "h", "U+00EC">>

PhraseTyped == <<"w", "U+01D2", " ", " ", " ", "s", "h", "U+00EC", ".">>

PhraseUnaccented == <<"w", "o", " ", "s", "h", "i">>

PhraseSpacedStop == <<"w", "U+01D2", " ", ".", " ", "s", "h", "U+00EC">>

Texts ==
    TextsUpTo(MaxLen) \cup {PhraseText, PhraseTyped, PhraseUnaccented, PhraseSpacedStop}

\* A lesson document of one record whose pinyin is the given text.
DocOf(pinyin) ==
    Doc("ok", 1, << Lesson(1, Cmd1Chinese, pinyin, "cmd_01.mp3", <<>>, "") >>)

(***************************************************************************)
(* Text operations of compareAnswers and checkAnswer.                      *)
(***************************************************************************)
\* String.prototype.toLowerCase on one character.
ToLowerChar(c) ==
    CASE c = "A" -> "a"
      [] c = "J" -> "j"
      [] c = "S" -> "s"
      [] c = "W" -> "w"
      [] c = "Y" -> "y"
      [] c = "U+01D1" -> "U+01D2"
      [] OTHER -> c

ToLowerCase(text) == [i \in 1..Len(text) |-> ToLowerChar(text[i])]

\* The character class of /[.,，。！？!?]/g.
Punctuation == {".", ",", "U+FF0C", "U+3002", "U+FF01", "U+FF1F", "!", "?"}

\* Characters matched by \s and stripped by trim().
Whitespace == {" ", "\t", "\n", "U+3000"}

\* Only the Latin characters of the class removed.
RemoveLatinPunctuation(text) == SelectSeq(text, LAMBDA c : c \notin {".", ",", "!", "?"})

RemovePunctuation(text) == SelectSeq(text, LAMBDA c : c \notin Punctuation)

\* .replace(/\s+/g, ' '): every maximal run of whitespace becomes one space.
RECURSIVE CollapseSpaces(_)
CollapseSpaces(text) ==
    IF text = << >> THEN << >>
    ELSE IF Head(text) \in Whitespace
         THEN IF Len(text) > 1 /\ text[2] \in Whitespace
              THEN CollapseSpaces(Tail(text))
              ELSE <<" ">> \o CollapseSpaces(Tail(text))
         ELSE <<Head(text)>> \o CollapseSpaces(Tail(text))

RECURSIVE TrimStart(_)
TrimStart(text) ==
    IF text # << >> /\ Head(text) \in Whitespace THEN TrimStart(Tail(text)) ELSE text

RECURSIVE TrimEnd(_)
TrimEnd(text) ==
    IF text # << >> /\ text[Len(text)] \in Whitespace
    THEN TrimEnd(SubSeq(text, 1, Len(text) - 1))
    ELSE text

\* The input taken as typed, without trimming.
TrimNone(text) == text

Trim(text) == TrimEnd(TrimStart(text))

\* Whitespace collapsed before the punctuation is removed.
normalizeCollapseFirst(text) ==
    Trim(RemovePunctuation(CollapseSpaces(ToLowerCase(text))))

normalize(text) == Trim(CollapseSpaces(RemovePunctuation(ToLowerCase(text))))

\* Only the user's answer normalized.
compareAnswersOneSided(userAnswer, correctAnswer) ==
    normalize(userAnswer) = correctAnswer

compareAnswers(userAnswer, correctAnswer) ==
    normalize(userAnswer) = normalize(correctAnswer)


(***************************************************************************)
(* State.                                                                  *)
(*   phase               position of initialize(): "loading" until the     *)
(*                       lesson document has been handled, then "ready"     *)
(*                       (listeners installed) or "error" (showError)      *)
(*   lessons, currentLessonIndex, currentLesson, completedLessons,         *)
(*   currentAudio        the fields of ChineseLearningApp; currentAudio is *)
(*                       the index in audios of the Audio object, 0 = null *)
(*   audios              every Audio object created so far                 *)
(*   tasks               every playAudio / playFrenchAudio call that got   *)
(*                       past its early return, with its position          *)
(*   timers              pending setTimeout callbacks that reset a label   *)
(*   elements            the DOM state the controller reads and writes     *)
(*   notice              the text of the notification shown last           *)
(***************************************************************************)
VARIABLES phase, lessons, currentLessonIndex, currentLesson, completedLessons,
          currentAudio, audios, tasks, timers, elements, notice

vars == <<phase, lessons, currentLessonIndex, currentLesson, completedLessons,
          currentAudio, audios, tasks, timers, elements, notice>>

\* A play control: the audio-playing class, its label and its disabled flag.
Button(playing, text, disabled) ==
    [playing |-> playing, text |-> text, disabled |-> disabled]

\* The feedback panel: its variant and the two texts it shows.
Feedback(kind, user, correct) == [kind |-> kind, user |-> user, correct |-> correct]

\* The page as loaded, before any script has written to it.
InitialElements ==
    [ totalCount |-> 0, completedCount |-> 0,
      selectOptions |-> << >>, selectValue |-> "",
      shown |-> NoLesson, frenchShown |-> FALSE, progress |-> <<0, 0>>,
      prevDisabled |-> FALSE, nextDisabled |-> FALSE,
      studyHidden |-> FALSE, practiceHidden |-> TRUE, errorView |-> FALSE,
      playAudioBtn |-> Button(FALSE, "Play Chinese", FALSE),
      playFrenchBtn |-> Button(FALSE, "Play French", FALSE),
      audioStatus |-> "Click to play audio",
      pinyinChecked |-> TRUE,
      answer |-> << >>, answerClass |-> "",
      feedback |-> Feedback("", << >>, << >>),
      checkHidden |-> FALSE, nextPracticeHidden |-> TRUE ]

Init ==
    /\ phase = "loading"
    /\ lessons = << >>
    /\ currentLessonIndex = 0
    /\ currentLesson = NoLesson
    /\ completedLessons = {}
    /\ currentAudio = 0
    /\ audios = << >>
    /\ tasks = << >>
    /\ timers = [zh |-> 0, fr |-> 0]
    /\ elements = InitialElements
    /\ notice = ""

(***************************************************************************)
(* Numbers as option values: option.value = index stores the decimal       *)
(* string, parseInt reads it back, and gives NaN for any other string.     *)
(***************************************************************************)
Digits == <<"0", "1", "2", "3", "4", "5", "6", "7", "8", "9">>

NaN == -1

toString(n) == IF n + 1 \in DOMAIN Digits THEN Digits[n + 1] ELSE "NaN"

parseInt(str) ==
    IF \E n \in DOMAIN Digits : Digits[n] = str
    THEN (CHOOSE n \in DOMAIN Digits : Digits[n] = str) - 1
    ELSE NaN

(***************************************************************************)
(* showLesson(index).                                                      *)
(***************************************************************************)
\* The range test with the upper bound off by one.
OutOfRangeInclusive(index, ls) == index # NaN /\ (index < 0 \/ index > Len(ls))

\* The guard of line 197: both comparisons are false for NaN.
OutOfRange(index, ls) == index # NaN /\ (index < 0 \/ index >= Len(ls))

\* The lesson one position further.
LessonAtNext(index, ls) == IF (index + 1) \in DOMAIN [i \in 0..(Len(ls) - 1) |-> i]
                           THEN ls[index + 2] ELSE NoLesson

\* lessons[index]; undefined for NaN.
LessonAt(index, ls) == IF index \in DOMAIN [i \in 0..(Len(ls) - 1) |-> i]
                       THEN ls[index + 1] ELSE NoLesson

showLessonIndex(index, ls, old) == IF OutOfRange(index, ls) THEN old ELSE index

showLessonCurrent(index, ls, old) ==
    IF OutOfRange(index, ls) THEN old ELSE LessonAt(index, ls)

\* The display refresh with the test of the last lesson off by one.
showLessonElementsPastEnd(els, index, ls) ==
    IF OutOfRange(index, ls) \/ index = NaN THEN els
    ELSE [els EXCEPT
            !.shown = LessonAt(index, ls),
            !.frenchShown = (LessonAt(index, ls).french # << >>),
            !.progress = <<index + 1, Len(ls)>>,
            !.selectValue = toString(index),
            !.prevDisabled = (index = 0),
            !.nextDisabled = (index = Len(ls))]

\* The display refresh; reading .source of undefined (index NaN) throws
\* before anything is written.
showLessonElements(els, index, ls) ==
    IF OutOfRange(index, ls) \/ index = NaN THEN els
    ELSE [els EXCEPT
            !.shown = LessonAt(index, ls),
            !.frenchShown = (LessonAt(index, ls).french # << >>),
            !.progress = <<index + 1, Len(ls)>>,
            !.selectValue = toString(index),
            !.prevDisabled = (index = 0),
            !.nextDisabled = (index = Len(ls) - 1)]

(***************************************************************************)
(* initialize() and loadLessons().  No listener is installed before        *)
(* setupEventListeners runs, so startup is one step.                       *)
(***************************************************************************)
\* The cases in which loadLessons reaches its catch block: fetch rejects,
\* the response is not ok, json() rejects, or this.lessons.length throws
\* on an undefined data.lessons.
LoadThrows(doc) == doc.kind \in {"network", "http", "badjson", "nolessons"}

loadLessons(doc) ==
    IF LoadThrows(doc)
    THEN [lessons |-> getSampleLessons, totalCount |-> Len(getSampleLessons)]
    ELSE [lessons |-> doc.lessons, totalCount |-> doc.total_lessons]

\* populateLessonSelector: one option per lesson, its value the index.
populateLessonSelector(els, ls) ==
    IF Len(ls) = 0 THEN els
    ELSE [els EXCEPT !.selectOptions = [i \in 1..Len(ls) |-> toString(i - 1)]]

updateStats(els, completed) == [els EXCEPT !.completedCount = Cardinality(completed)]

\* showError: the study view is replaced by the error panel.
showError(els) == [els EXCEPT !.errorView = TRUE]

\* initialize() when fetching and parsing the lesson document gives doc.
initializeWith(doc) ==
    /\ phase = "loading"
    /\ LET loaded == loadLessons(doc)
           els1 == [elements EXCEPT !.totalCount = loaded.totalCount]
       IN  IF doc.kind = "notarray"
           THEN \* this.lessons.forEach is not a function: initialize's catch
                \* block runs and no listener is installed.  The value
                \* of this.lessons is never read again.
                /\ phase' = "error"
                /\ lessons' = << >>
                /\ elements' = showError(els1)
                /\ UNCHANGED <<currentLessonIndex, currentLesson>>
           ELSE /\ phase' = "ready"
                /\ lessons' = loaded.lessons
                /\ currentLessonIndex' =
                      showLessonIndex(0, loaded.lessons, currentLessonIndex)
                /\ currentLesson' =
                      showLessonCurrent(0, loaded.lessons, currentLesson)
                /\ elements' =
                      updateStats(
                        showLessonElements(
                          populateLessonSelector(els1, loaded.lessons),
                          0, loaded.lessons),
                        completedLessons)
    /\ UNCHANGED <<completedLessons, currentAudio, audios, tasks, timers, notice>>

initialize == \E doc \in Documents : initializeWith(doc)

\* initialize() on a document of one record with any of the texts as pinyin.
initializeText == \E pinyin \in Texts : initializeWith(DocOf(pinyin))

(***************************************************************************)
(* Navigation.                                                             *)
(***************************************************************************)
\* The effect of a showLesson(index) call on the navigation state.
showLesson(index) ==
    /\ currentLessonIndex' = showLessonIndex(index, lessons, currentLessonIndex)
    /\ currentLesson' = showLessonCurrent(index, lessons, currentLesson)

previousIndex(index) == index - 1

\* A step of two lessons.
nextIndexSkipping(index) == index + 2

nextIndex(index) == index + 1

\* previousLesson(), from the previous button or the ArrowLeft key.
previousLesson ==
    /\ UNCHANGED notice
    /\ IF currentLessonIndex > 0
       THEN /\ showLesson(previousIndex(currentLessonIndex))
            /\ elements' = showLessonElements(elements,
                              previousIndex(currentLessonIndex), lessons)
       ELSE UNCHANGED <<currentLessonIndex, currentLesson, elements>>
    /\ UNCHANGED <<phase, lessons, completedLessons, currentAudio, audios,
                   tasks, timers>>

\* nextLesson(), from the next button or the ArrowRight key.
nextLesson ==
    /\ UNCHANGED notice
    /\ IF currentLessonIndex < Len(lessons) - 1
       THEN /\ showLesson(nextIndex(currentLessonIndex))
            /\ elements' = showLessonElements(elements,
                              nextIndex(currentLessonIndex), lessons)
       ELSE UNCHANGED <<currentLessonIndex, currentLesson, elements>>
    /\ UNCHANGED <<phase, lessons, completedLessons, currentAudio, audios,
                   tasks, timers>>

\* A click needs a control that is displayed and not disabled.
StudyVisible == phase = "ready" /\ ~elements.studyHidden

PracticeVisible == phase = "ready" /\ ~elements.practiceHidden

ClickPrevious == StudyVisible /\ ~elements.prevDisabled /\ previousLesson

ClickNext == StudyVisible /\ ~elements.nextDisabled /\ nextLesson

\* The change event of the lesson selector: the user picks option k,
\* another one than the selected.
SelectLessonAt(k) ==
    /\ phase = "ready"
    /\ elements.selectOptions[k] # elements.selectValue
    /\ LET selectedIndex == parseInt(elements.selectOptions[k])
       IN  /\ showLesson(selectedIndex)
           /\ elements' = showLessonElements(
                 [elements EXCEPT !.selectValue = elements.selectOptions[k]],
                 selectedIndex, lessons)
    /\ UNCHANGED <<phase, lessons, completedLessons, currentAudio, audios,
                   tasks, timers, notice>>

SelectLesson == \E k \in DOMAIN elements.selectOptions : SelectLessonAt(k)

(***************************************************************************)
(* Audio.  An Audio object is                                              *)
(*   src            the path it was created with                           *)
(*   st             "idle" (created, never played), "starting" (play()     *)
(*                  called, its promise pending), "playing", "paused"      *)
(*                  (stopped by pause()), "ended", "error" (load failed)   *)
(*   ended          the 'ended' listeners registered on it, each named by  *)
(*                  the control it resets, in registration order           *)
(*   errorListener  whether playAudio's 'error' listener is registered     *)
(* A task is one call of playAudio ("zh") or playFrenchAudio ("fr"):       *)
(*   file           its audioFile                                          *)
(*   pc             "fetch" (suspended at the HEAD request), "play"        *)
(*                  (suspended at play()), "done", "failed" (catch ran)    *)
(*   on             the Audio object whose play() promise it awaits, 0     *)
(*                  when it awaits none                                    *)
(*   headOk         whether its HEAD request came back ok                  *)
(*   practice       whether a playPracticeAudio call awaits its end        *)
(***************************************************************************)
AudioPath(file) == <<"../audio/", file>>

NewAudio(src, errorListener) ==
    [src |-> src, st |-> "idle", ended |-> << >>, errorListener |-> errorListener]

NewTask(kind, file, practice) ==
    [kind |-> kind, file |-> file, pc |-> "fetch", on |-> 0, headOk |-> FALSE,
     practice |-> practice]

\* A call that has returned awaits nothing and nothing awaits it.
Finished(task, pc) == [task EXCEPT !.pc = pc, !.on = 0, !.practice = FALSE]

IdleLabel(kind) == IF kind = "zh" THEN "Play Chinese" ELSE "Play French"

ErrorLabel(kind) == IF kind = "zh" THEN "Audio Error" ELSE "French Audio Error"

ErrorNote(kind) == IF kind = "zh" THEN "Audio Error" ELSE "French Audio Error"

\* The control of a kind of request.
SetButton(els, kind, button) ==
    IF kind = "zh" THEN [els EXCEPT !.playAudioBtn = button]
                   ELSE [els EXCEPT !.playFrenchBtn = button]

ButtonOf(els, kind) == IF kind = "zh" THEN els.playAudioBtn ELSE els.playFrenchBtn

\* pause() followed by currentTime = 0 on one Audio object: an object that
\* is starting or playing stops; pause() on any other is a no-op.
Pause(audio) ==
    IF audio.st \in {"starting", "playing"} THEN [audio EXCEPT !.st = "paused"]
    ELSE audio

\* A request that does not stop the audio that is playing.
StopCurrentNoPause(objs, cur) == objs

\* "Stop current audio if playing" (lines 247-250, 339-342).
StopCurrent(objs, cur) ==
    IF cur = 0 THEN objs ELSE [objs EXCEPT ![cur] = Pause(objs[cur])]

\* The visual feedback of a request that starts (lines 272-274, 348-350).
LoadingButton == Button(TRUE, "Loading...", TRUE)

\* The error label on a control left disabled.
ErrorButtonDisabled(kind) == Button(FALSE, ErrorLabel(kind), TRUE)

\* The catch block of playFrenchAudio, and handleAudioError for playAudio:
\* the error label on the enabled control, and a timer to reset the label.
ErrorButton(kind) == Button(FALSE, ErrorLabel(kind), FALSE)

AddTimer(tm, kind) == [tm EXCEPT ![kind] = tm[kind] + 1]

\* The 'ended' listener (lines 293-298, 365-369).
EndedButton(kind) == Button(FALSE, IdleLabel(kind), FALSE)

\* playPracticeAudio's line after its await, once the awaited call is over.
AfterPractice(els, practice) ==
    IF practice THEN [els EXCEPT !.audioStatus = "Audio played"] ELSE els

BeforePractice(els, practice) ==
    IF practice THEN [els EXCEPT !.audioStatus = "Playing audio"] ELSE els

\* A request past its early return: stop the current object, create the
\* new one, show "Loading...", and suspend at the HEAD request.
StartRequest(kind, file, practice) ==
    /\ Len(tasks) < MaxRequests
    /\ audios' = Append(StopCurrent(audios, currentAudio),
                        NewAudio(AudioPath(file), kind = "zh"))
    /\ currentAudio' = Len(audios) + 1
    /\ tasks' = Append(tasks, NewTask(kind, AudioPath(file), practice))
    /\ elements' = SetButton(BeforePractice(elements, practice), kind, LoadingButton)
    /\ UNCHANGED notice
    /\ UNCHANGED timers

\* playAudio(), optionally awaited by playPracticeAudio().
playAudio(practice) ==
    /\ IF currentLesson = NoLesson
       THEN /\ elements' = AfterPractice(elements, practice)
            /\ UNCHANGED notice
            /\ UNCHANGED <<currentAudio, audios, tasks, timers>>
       ELSE StartRequest("zh", currentLesson.audio_file, practice)
    /\ UNCHANGED <<phase, lessons, currentLessonIndex, currentLesson, completedLessons>>

\* playFrenchAudio testing only that there is a current lesson.
playFrenchAudioUnchecked ==
    /\ IF currentLesson = NoLesson
       THEN /\ notice' = "No French audio available"
            /\ UNCHANGED <<currentAudio, audios, tasks, timers, elements>>
       ELSE StartRequest("fr", currentLesson.french_audio_file, FALSE)
    /\ UNCHANGED <<phase, lessons, currentLessonIndex, currentLesson, completedLessons>>

playFrenchAudio ==
    /\ IF currentLesson = NoLesson \/ currentLesson.french_audio_file = ""
       THEN /\ notice' = "No French audio available"
            /\ UNCHANGED <<currentAudio, audios, tasks, timers, elements>>
       ELSE StartRequest("fr", currentLesson.french_audio_file, FALSE)
    /\ UNCHANGED <<phase, lessons, currentLessonIndex, currentLesson, completedLessons>>

ClickPlayAudio ==
    StudyVisible /\ ~elements.playAudioBtn.disabled /\ playAudio(FALSE)

ClickRepeatAudio == StudyVisible /\ playAudio(FALSE)

ClickPlayFrench ==
    /\ StudyVisible /\ elements.frenchShown /\ ~elements.playFrenchBtn.disabled
    /\ playFrenchAudio

ClickPracticePlay == PracticeVisible /\ playAudio(TRUE)

\* A failure that also empties the answer field.
FailClearingAnswer(els, task) ==
    [AfterPractice(SetButton(els, task.kind, ErrorButton(task.kind)), task.practice)
        EXCEPT !.answer = << >>]

\* The calls a resumed task makes after its await, in order.  A task that
\* fails runs its catch block; either way the call is then over.
Fail(els, task) == AfterPractice(SetButton(els, task.kind, ErrorButton(task.kind)),
                                 task.practice)

\* play() on an Audio object: playback (re)starts unless it already plays;
\* an object whose load failed stays failed and the promise will reject.
Play(audio) ==
    IF audio.st \in {"idle", "paused", "ended"} THEN [audio EXCEPT !.st = "starting"]
    ELSE audio

\* The HEAD request of task t completes.  ok: the response is ok; allowed:
\* play() is not refused at once (NotAllowedError).
FetchDone(t, ok, allowed) ==
    /\ tasks[t].pc = "fetch"
    /\ LET task == tasks[t]
           playing == SetButton(elements, task.kind,
                         [ButtonOf(elements, task.kind) EXCEPT !.text = "Playing..."])
       IN  IF ~ok
           THEN /\ tasks' = [tasks EXCEPT ![t] = Finished(task, "failed")]
                /\ elements' = Fail(elements, task)
                /\ timers' = AddTimer(timers, task.kind)
                /\ notice' = ErrorNote(task.kind)
                /\ UNCHANGED audios
           ELSE IF ~allowed
           THEN /\ tasks' = [tasks EXCEPT
                              ![t] = Finished([task EXCEPT !.headOk = TRUE], "failed")]
                /\ elements' = Fail(playing, task)
                /\ timers' = AddTimer(timers, task.kind)
                /\ notice' = ErrorNote(task.kind)
                /\ UNCHANGED audios
           ELSE /\ tasks' = [tasks EXCEPT ![t].pc = "play", ![t].on = currentAudio,
                                          ![t].headOk = TRUE]
                /\ audios' = [audios EXCEPT ![currentAudio] = Play(audios[currentAudio])]
                /\ elements' = playing
                /\ UNCHANGED notice
                /\ UNCHANGED timers
    /\ UNCHANGED <<phase, lessons, currentLessonIndex, currentLesson,
                   completedLessons, currentAudio>>

\* The tasks suspended at play() of Audio object a, earliest first.
Pending(a) == SelectSeq([t \in 1..Len(tasks) |-> t],
                        LAMBDA t : tasks[t].pc = "play" /\ tasks[t].on = a)

RECURSIVE AddEnded(_, _)
\* Each resumed task registers its 'ended' listener.
AddEnded(audio, ts) ==
    IF ts = << >> THEN audio
    ELSE AddEnded([audio EXCEPT !.ended = Append(@, tasks[Head(ts)].kind)], Tail(ts))

RECURSIVE AfterPracticeAll(_, _)
AfterPracticeAll(els, ts) ==
    IF ts = << >> THEN els
    ELSE AfterPracticeAll(AfterPractice(els, tasks[Head(ts)].practice), Tail(ts))

RECURSIVE FailAll(_, _)
FailAll(els, ts) ==
    IF ts = << >> THEN els ELSE FailAll(Fail(els, tasks[Head(ts)]), Tail(ts))

RECURSIVE AddTimers(_, _)
AddTimers(tm, ts) ==
    IF ts = << >> THEN tm ELSE AddTimers(AddTimer(tm, tasks[Head(ts)].kind), Tail(ts))

\* Playback of Audio object a starts: the play() promises of a resolve and
\* every task awaiting one registers its listener on this.currentAudio.
PlayResolved(a) ==
    /\ audios[a].st \in {"starting", "playing"}
    /\ Pending(a) # << >>
    /\ audios' = [[audios EXCEPT ![a].st = "playing"]
                    EXCEPT ![currentAudio] = AddEnded(@, Pending(a))]
    /\ tasks' = [t \in 1..Len(tasks) |->
                   IF tasks[t].pc = "play" /\ tasks[t].on = a
                   THEN Finished(tasks[t], "done") ELSE tasks[t]]
    /\ elements' = AfterPracticeAll(elements, Pending(a))
    /\ UNCHANGED notice
    /\ UNCHANGED <<phase, lessons, currentLessonIndex, currentLesson,
                   completedLessons, currentAudio, timers>>

\* The play() promises of a reject: a was paused before playback started
\* (AbortError) or its load failed (NotSupportedError).
PlayRejected(a) ==
    /\ audios[a].st \in {"paused", "error"}
    /\ Pending(a) # << >>
    /\ tasks' = [t \in 1..Len(tasks) |->
                   IF tasks[t].pc = "play" /\ tasks[t].on = a
                   THEN Finished(tasks[t], "failed") ELSE tasks[t]]
    /\ elements' = FailAll(elements, Pending(a))
    /\ timers' = AddTimers(timers, Pending(a))
    /\ notice' = ErrorNote(tasks[Pending(a)[Len(Pending(a))]].kind)
    /\ UNCHANGED <<phase, lessons, currentLessonIndex, currentLesson,
                   completedLessons, currentAudio, audios>>

RECURSIVE RunEnded(_, _)
\* The 'ended' listeners of an object run in registration order.
RunEnded(els, listeners) ==
    IF listeners = << >> THEN els
    ELSE RunEnded(SetButton(els, Head(listeners), EndedButton(Head(listeners))),
                  Tail(listeners))

\* Audio object a plays to its natural end: its 'ended' event is dispatched.
AudioEnded(a) ==
    /\ audios[a].st = "playing"
    /\ Pending(a) = << >>
    /\ audios' = [audios EXCEPT ![a].st = "ended"]
    /\ elements' = RunEnded(elements, audios[a].ended)
    /\ UNCHANGED notice
    /\ UNCHANGED <<phase, lessons, currentLessonIndex, currentLesson,
                   completedLessons, currentAudio, tasks, timers>>

\* The resource of Audio object a fails to load: its 'error' event is
\* dispatched, to playAudio's listener if the object has one.
AudioError(a) ==
    /\ audios[a].st \in {"idle", "starting"}
    /\ audios' = [audios EXCEPT ![a].st = "error"]
    /\ IF audios[a].errorListener
       THEN /\ elements' = SetButton(elements, "zh", ErrorButton("zh"))
            /\ timers' = AddTimer(timers, "zh")
            /\ notice' = ErrorNote("zh")
       ELSE /\ UNCHANGED notice
            /\ UNCHANGED <<elements, timers>>
    /\ UNCHANGED <<phase, lessons, currentLessonIndex, currentLesson,
                   completedLessons, currentAudio, tasks>>

\* A label-reset timer fires (lines 322-324, 380-382).
TimerFired(kind) ==
    /\ timers[kind] > 0
    /\ timers' = [timers EXCEPT ![kind] = @ - 1]
    /\ elements' = SetButton(elements, kind,
                      [ButtonOf(elements, kind) EXCEPT !.text = IdleLabel(kind)])
    /\ UNCHANGED notice
    /\ UNCHANGED <<phase, lessons, currentLessonIndex, currentLesson,
                   completedLessons, currentAudio, audios, tasks>>


(***************************************************************************)
(* Practice.                                                               *)
(***************************************************************************)
\* A reset that leaves the feedback and the two controls as they are.
resetPracticeInputOnly(els) ==
    [els EXCEPT !.answer = << >>, !.answerClass = "",
                !.audioStatus = "Click to play audio"]

resetPractice(els) ==
    [els EXCEPT !.answer = << >>, !.answerClass = "",
                !.feedback = Feedback("", << >>, << >>),
                !.checkHidden = FALSE, !.nextPracticeHidden = TRUE,
                !.audioStatus = "Click to play audio"]

enterPracticeMode ==
    /\ elements' = resetPractice([elements EXCEPT !.studyHidden = TRUE,
                                                  !.practiceHidden = FALSE])
    /\ UNCHANGED notice
    /\ UNCHANGED <<phase, lessons, currentLessonIndex, currentLesson,
                   completedLessons, currentAudio, audios, tasks, timers>>

\* Leaving the practice view without showing the study view again.
exitPracticeModeHiding(els) == [els EXCEPT !.practiceHidden = TRUE]

exitPracticeModeElements(els) ==
    [els EXCEPT !.practiceHidden = TRUE, !.studyHidden = FALSE]

exitPracticeMode ==
    /\ elements' = exitPracticeModeElements(elements)
    /\ UNCHANGED notice
    /\ UNCHANGED <<phase, lessons, currentLessonIndex, currentLesson,
                   completedLessons, currentAudio, audios, tasks, timers>>

ClickStartPractice == StudyVisible /\ enterPracticeMode

ClickBackToStudy == PracticeVisible /\ exitPracticeMode

\* The change event of the practice-type radio buttons: the other one is
\* checked, then resetPractice runs.
ChangePracticeType ==
    /\ PracticeVisible
    /\ elements' = resetPractice([elements EXCEPT !.pinyinChecked = ~@])
    /\ UNCHANGED notice
    /\ UNCHANGED <<phase, lessons, currentLessonIndex, currentLesson,
                   completedLessons, currentAudio, audios, tasks, timers>>

\* The texts a user types into the answer field: the two expected answers
\* of the lesson as written, the pinyin in another case, punctuation and
\* spacing, the pinyin of the first sample lesson without its diacritics,
\* and blanks.
Blank == <<" ", " ">>

Unaccented == <<"w", "o", " ", "j", "i", "a", "o">>

Sloppy(text) == <<" ">> \o ToLowerCase(text) \o <<" ", "\t", "!", " ">>

Inputs(lesson) ==
    IF lesson = NoLesson THEN {Blank, Unaccented}
    ELSE {lesson.pinyin, lesson.chinese, Sloppy(lesson.pinyin), Unaccented, Blank}

TypeAnswer ==
    /\ PracticeVisible
    /\ \E text \in Inputs(currentLesson) :
         /\ text # elements.answer
         /\ elements' = [elements EXCEPT !.answer = text]
    /\ UNCHANGED notice
    /\ UNCHANGED <<phase, lessons, currentLessonIndex, currentLesson,
                   completedLessons, currentAudio, audios, tasks, timers>>

\* The answer field edited to any of the texts.
TypeText ==
    /\ PracticeVisible
    /\ \E text \in Texts :
         /\ text # elements.answer
         /\ elements' = [elements EXCEPT !.answer = text]
    /\ UNCHANGED notice
    /\ UNCHANGED <<phase, lessons, currentLessonIndex, currentLesson,
                   completedLessons, currentAudio, audios, tasks, timers>>

\* The expected answer with the practice modes exchanged.
CorrectAnswerSwapped(els, lesson) ==
    IF els.pinyinChecked THEN lesson.chinese ELSE lesson.pinyin

\* The expected answer for the selected practice type.
CorrectAnswer(els, lesson) == IF els.pinyinChecked THEN lesson.pinyin ELSE lesson.chinese

showCorrectFeedback(els) ==
    [els EXCEPT !.feedback = Feedback("correct", << >>, << >>),
                !.answerClass = "correct",
                !.checkHidden = TRUE, !.nextPracticeHidden = FALSE]

showIncorrectFeedback(els, userAnswer, correctAnswer) ==
    [els EXCEPT !.feedback = Feedback("incorrect", userAnswer, correctAnswer),
                !.answerClass = "incorrect"]

\* The set replaced by the lesson's id instead of extended by it.
markCompletedReplace(completed, lesson) == {lesson.id}

markCompleted(completed, lesson) == completed \cup {lesson.id}

\* checkAnswer(), from the check button or Enter in the answer field.
\* With no current lesson, reading currentLesson.pinyin throws and the
\* handler ends there.
checkAnswer ==
    LET userAnswer == Trim(elements.answer)
        correctAnswer == CorrectAnswer(elements, currentLesson)
    IN  /\ IF userAnswer = << >>
           THEN /\ notice' = "Please enter your answer first"
                /\ UNCHANGED <<elements, completedLessons>>
           ELSE IF currentLesson = NoLesson
           THEN /\ UNCHANGED notice
                /\ UNCHANGED <<elements, completedLessons>>
           ELSE IF compareAnswers(userAnswer, correctAnswer)
           THEN /\ completedLessons' = markCompleted(completedLessons, currentLesson)
                /\ elements' = updateStats(showCorrectFeedback(elements),
                                           completedLessons')
                /\ UNCHANGED notice
           ELSE /\ elements' = showIncorrectFeedback(elements, userAnswer,
                                                     correctAnswer)
                /\ UNCHANGED notice
                /\ UNCHANGED completedLessons
        /\ UNCHANGED <<phase, lessons, currentLessonIndex, currentLesson,
                       currentAudio, audios, tasks, timers>>

ClickCheckAnswer == PracticeVisible /\ ~elements.checkHidden /\ checkAnswer

\* keypress Enter (without Shift) in the answer field.
EnterInAnswer == PracticeVisible /\ checkAnswer

showAnswerElements(els, correctAnswer) ==
    [els EXCEPT !.answer = correctAnswer, !.answerClass = "correct",
                !.feedback = Feedback("shown", << >>, correctAnswer),
                !.checkHidden = TRUE, !.nextPracticeHidden = FALSE]

ClickShowAnswer ==
    /\ PracticeVisible
    /\ elements' = IF currentLesson = NoLesson THEN elements
                   ELSE showAnswerElements(elements,
                                           CorrectAnswer(elements, currentLesson))
    /\ UNCHANGED notice
    /\ UNCHANGED <<phase, lessons, currentLessonIndex, currentLesson,
                   completedLessons, currentAudio, audios, tasks, timers>>

\* nextPracticeLesson(), from the advance button.
ClickNextPractice ==
    /\ PracticeVisible /\ ~elements.nextPracticeHidden
    /\ IF currentLessonIndex < Len(lessons) - 1
       THEN /\ showLesson(nextIndex(currentLessonIndex))
            /\ elements' = resetPractice(showLessonElements(elements,
                              nextIndex(currentLessonIndex), lessons))
            /\ UNCHANGED notice
       ELSE /\ elements' = exitPracticeModeElements(elements)
            /\ notice' = "Congratulations"
            /\ UNCHANGED <<currentLessonIndex, currentLesson>>
    /\ UNCHANGED <<phase, lessons, completedLessons, currentAudio, audios,
                   tasks, timers>>

(***************************************************************************)
(* handleKeyboard: a keydown whose target is not the answer field.         *)
(***************************************************************************)
KeyArrowLeft == phase = "ready" /\ previousLesson

KeyArrowRight == phase = "ready" /\ nextLesson

KeySpace == phase = "ready" /\ playAudio(FALSE)

KeyP == phase = "ready" /\ enterPracticeMode

KeyEscape == phase = "ready" /\ exitPracticeMode

(***************************************************************************)
(* The specification.                                                      *)
(***************************************************************************)
Next ==
    \/ initialize
    \/ initializeText
    \/ ClickPrevious
    \/ ClickNext
    \/ SelectLesson
    \/ ClickPlayAudio
    \/ ClickRepeatAudio
    \/ ClickPlayFrench
    \/ ClickPracticePlay
    \/ \E t \in DOMAIN tasks : \E ok, allowed \in BOOLEAN : FetchDone(t, ok, allowed)
    \/ \E a \in DOMAIN audios : PlayResolved(a)
    \/ \E a \in DOMAIN audios : PlayRejected(a)
    \/ \E a \in DOMAIN audios : AudioEnded(a)
    \/ \E a \in DOMAIN audios : AudioError(a)
    \/ \E kind \in {"zh", "fr"} : TimerFired(kind)
    \/ ClickStartPractice
    \/ ClickBackToStudy
    \/ ChangePracticeType
    \/ TypeAnswer
    \/ TypeText
    \/ ClickCheckAnswer
    \/ EnterInAnswer
    \/ ClickShowAnswer
    \/ ClickNextPractice
    \/ KeyArrowLeft
    \/ KeyArrowRight
    \/ KeySpace
    \/ KeyP
    \/ KeyEscape

Spec == Init /\ [][Next]_vars

(***************************************************************************)
(* The events of the study and practice views without audio.  The audio    *)
(* actions write only currentAudio, audios, tasks, timers, the two play    *)
(* controls and the audio status line, and no guard of the actions below   *)
(* reads any of those.                                                     *)
(***************************************************************************)
NextStudy ==
    \/ initialize
    \/ ClickPrevious
    \/ ClickNext
    \/ SelectLesson
    \/ ClickStartPractice
    \/ ClickBackToStudy
    \/ ChangePracticeType
    \/ TypeAnswer
    \/ ClickCheckAnswer
    \/ EnterInAnswer
    \/ ClickShowAnswer
    \/ ClickNextPractice
    \/ KeyArrowLeft
    \/ KeyArrowRight
    \/ KeyP
    \/ KeyEscape

SpecStudy == Init /\ [][NextStudy]_vars

(***************************************************************************)
(* The audio requests, their continuations and the events that decide      *)
(* which clip a request plays and which play control can be clicked:       *)
(* navigation and the switch between the two views.                        *)
(***************************************************************************)
NextAudio ==
    \/ initialize
    \/ ClickPrevious
    \/ ClickNext
    \/ SelectLesson
    \/ ClickPlayAudio
    \/ ClickRepeatAudio
    \/ ClickPlayFrench
    \/ ClickPracticePlay
    \/ \E t \in DOMAIN tasks : \E ok, allowed \in BOOLEAN : FetchDone(t, ok, allowed)
    \/ \E a \in DOMAIN audios : PlayResolved(a)
    \/ \E a \in DOMAIN audios : PlayRejected(a)
    \/ \E a \in DOMAIN audios : AudioEnded(a)
    \/ \E a \in DOMAIN audios : AudioError(a)
    \/ \E kind \in {"zh", "fr"} : TimerFired(kind)
    \/ ClickStartPractice
    \/ ClickBackToStudy
    \/ KeyArrowLeft
    \/ KeyArrowRight
    \/ KeySpace
    \/ KeyP
    \/ KeyEscape

SpecAudio == Init /\ [][NextAudio]_vars

(***************************************************************************)
(* A practice session with audio: the answer is typed, checked or revealed *)
(* while audio requests made from the practice view start, fail, play and  *)
(* end.  The lesson cursor stays where startup put it.                     *)
(***************************************************************************)
NextPractice ==
    \/ initialize
    \/ ClickStartPractice
    \/ ClickBackToStudy
    \/ TypeAnswer
    \/ ClickCheckAnswer
    \/ ClickShowAnswer
    \/ ClickPracticePlay
    \/ \E t \in DOMAIN tasks : \E ok, allowed \in BOOLEAN : FetchDone(t, ok, allowed)
    \/ \E a \in DOMAIN audios : PlayResolved(a)
    \/ \E a \in DOMAIN audios : PlayRejected(a)
    \/ \E a \in DOMAIN audios : AudioEnded(a)
    \/ \E a \in DOMAIN audios : AudioError(a)

SpecPractice == Init /\ [][NextPractice]_vars

(***************************************************************************)
(* The answer comparison on its own: one lesson whose pinyin is any of the *)
(* texts, the practice view, an answer field holding any of the texts, and *)
(* the check from the button or from Enter.                                *)
(***************************************************************************)
NextCompare ==
    \/ initializeText
    \/ ClickStartPractice
    \/ TypeText
    \/ ClickCheckAnswer
    \/ EnterInAnswer

SpecCompare == Init /\ [][NextCompare]_vars

(***************************************************************************)
(* Properties.                                                             *)
(***************************************************************************)
\* An Audio object whose playback is starting or running.
Active(a) == audios[a].st \in {"starting", "playing"}

\* C1: at most one audio playback is active at any time.  Only the object
\* this.currentAudio refers to can be starting or playing: every object an
\* earlier request created has been stopped.
C1_AtMostOnePlayback ==
    /\ \A a \in DOMAIN audios : Active(a) => a = currentAudio
    /\ Cardinality({a \in DOMAIN audios : Active(a)}) <= 1

\* A second request was made while the first clip was playing: the first
\* clip is stopped and the second plays.
C1_Witness ==
    \E a \in DOMAIN audios :
        /\ a < currentAudio
        /\ audios[a].st = "paused"
        /\ audios[a].ended # << >>
        /\ audios[currentAudio].st = "playing"

\* A request after which another request has started.
Superseded(t) == t < Len(tasks)

\* Task t resumes from its HEAD request or from its play() call.
Resumes(t) ==
    \/ \E ok, allowed \in BOOLEAN : FetchDone(t, ok, allowed)
    \/ /\ tasks[t].pc = "play"
       /\ PlayResolved(tasks[t].on) \/ PlayRejected(tasks[t].on)

\* C2: no two audio requests are in flight at once.  A request that is
\* still suspended when a later request starts is cancelled: when it
\* resumes it starts no playback, registers no completion handler and
\* changes no label or enabled state of a play control.
C2_LastRequestWins ==
    [][\A t \in DOMAIN tasks :
          Superseded(t) /\ Resumes(t) =>
              /\ audios' = audios
              /\ elements'.playAudioBtn = elements.playAudioBtn
              /\ elements'.playFrenchBtn = elements.playFrenchBtn]_vars

\* What showLesson shows of a lesson.
LessonDisplay(els) ==
    <<els.shown, els.frenchShown, els.progress, els.prevDisabled, els.nextDisabled>>

InRange(index, ls) == index \in {i \in 0..(Len(ls) - 1) : TRUE}

\* C3: showLesson(index) sets currentLessonIndex to index and currentLesson
\* to lessons[index] for every index in [0, lessons.length - 1], and leaves
\* currentLessonIndex, currentLesson and the lesson display unchanged for
\* every other index it is called with: by the selector's change handler
\* (the parseInt of the chosen option) and by initialize (index 0).
C3_ShowLesson ==
    [][/\ \A k \in DOMAIN elements.selectOptions :
            SelectLessonAt(k) =>
               LET index == parseInt(elements.selectOptions[k])
               IN  IF InRange(index, lessons)
                   THEN /\ currentLessonIndex' = index
                        /\ currentLesson' = lessons[index + 1]
                        /\ elements'.shown = lessons[index + 1]
                   ELSE /\ UNCHANGED <<currentLessonIndex, currentLesson>>
                        /\ LessonDisplay(elements') = LessonDisplay(elements)
       /\ \A doc \in Documents :
            initializeWith(doc) /\ phase' = "ready" =>
               IF InRange(0, lessons')
               THEN /\ currentLessonIndex' = 0
                    /\ currentLesson' = lessons'[1]
                    /\ elements'.shown = lessons'[1]
               ELSE /\ UNCHANGED <<currentLessonIndex, currentLesson>>
                    /\ LessonDisplay(elements') = LessonDisplay(elements)]_vars

\* The third lesson of three was chosen in the selector.
C3_Witness ==
    /\ phase = "ready"
    /\ Len(lessons) = 3
    /\ elements.selectValue = "2"
    /\ currentLessonIndex = 2
    /\ currentLesson = lessons[3]
    /\ elements.shown = lessons[3]

\* C4: once the lesson store is non-empty and startup has finished,
\* currentLessonIndex is in [0, lessons.length - 1] and currentLesson is
\* lessons[currentLessonIndex].
C4_IndexInRange ==
    (phase = "ready" /\ Len(lessons) > 0) =>
        /\ InRange(currentLessonIndex, lessons)
        /\ currentLesson = lessons[currentLessonIndex + 1]

\* The last of several lessons is current, in the practice view, after a
\* lesson was answered correctly.
C4_Witness ==
    /\ phase = "ready"
    /\ Len(lessons) > 1
    /\ currentLessonIndex = Len(lessons) - 1
    /\ ~elements.practiceHidden
    /\ completedLessons # {}

\* A check that reaches the comparison: the input is not empty after
\* trimming and there is a current lesson.
Compares == Trim(elements.answer) # << >> /\ currentLesson # NoLesson

IsCorrect ==
    compareAnswers(Trim(elements.answer), CorrectAnswer(elements, currentLesson))

\* C5: a check whose input equals the expected answer after normalization
\* adds the lesson's id to completedLessons, enables the advance action and
\* disables the check action: while the correct feedback stands (the
\* practice state has not been reset) no trigger (the check button, Enter
\* in the answer field) performs a check.
C5_CorrectDisablesCheck ==
    [][/\ (checkAnswer /\ PracticeVisible /\ Compares /\ IsCorrect) =>
             /\ currentLesson.id \in completedLessons'
             /\ ~elements'.nextPracticeHidden
             /\ elements'.checkHidden
       /\ (PracticeVisible /\ elements.feedback.kind = "correct" /\ Compares) =>
             ~checkAnswer]_vars

\* C6: a check whose input differs from the expected answer after
\* normalization leaves completedLessons unchanged, shows the incorrect
\* feedback with the user's text and the correct answer, and leaves the
\* check control visible and the advance control as it was.
C6_IncorrectKeepsCheck ==
    [][(checkAnswer /\ PracticeVisible /\ Compares /\ ~IsCorrect) =>
          /\ completedLessons' = completedLessons
          /\ elements'.feedback =
                Feedback("incorrect", Trim(elements.answer),
                         CorrectAnswer(elements, currentLesson))
          /\ ~elements'.checkHidden
          /\ elements'.nextPracticeHidden = elements.nextPracticeHidden]_vars

\* C7: for each clip that plays to its natural end the completion handling
\* runs exactly once.
C7_CompletionOnce ==
    [][\A a \in DOMAIN audios : AudioEnded(a) => Len(audios[a].ended) = 1]_vars

\* Playback of Audio object a has been attempted.
Attempted(objs, a) == objs[a].st \in {"starting", "playing", "paused", "ended"}

\* C8: playback of a clip is attempted only after a HEAD request for that
\* clip's path has completed successfully, and a request whose HEAD request
\* fails starts no clip.
C8_CheckedBeforePlay ==
    [][/\ \A a \in DOMAIN audios' :
            Attempted(audios', a) =>
               \E t \in DOMAIN tasks' :
                  tasks'[t].headOk /\ tasks'[t].file = audios'[a].src
       /\ \A t \in DOMAIN tasks :
            (\E allowed \in BOOLEAN : FetchDone(t, FALSE, allowed)) =>
               audios' = audios]_vars

\* C9: every data-load failure at startup is recovered by substituting the
\* built-in list of 3 records: startup ends with a non-empty lesson store,
\* totalCount showing 3, the lesson at index 0 displayed and no error view.
C9_LoadFailureFallsBack ==
    [][\A doc \in Documents :
          (doc.kind # "ok" /\ initializeWith(doc)) =>
              /\ phase' = "ready"
              /\ lessons' = getSampleLessons
              /\ elements'.totalCount = 3
              /\ currentLessonIndex' = 0
              /\ elements'.shown = getSampleLessons[1]
              /\ ~elements'.errorView]_vars

\* C10: nextLesson at the last index and previousLesson at index 0 leave
\* currentLessonIndex and currentLesson unchanged, and otherwise move the
\* cursor by exactly one; at the last index the next control is disabled.
C10_NoWraparound ==
    [][/\ (phase = "ready" /\ nextLesson) =>
             IF currentLessonIndex >= Len(lessons) - 1
             THEN UNCHANGED <<currentLessonIndex, currentLesson>>
             ELSE /\ currentLessonIndex' = currentLessonIndex + 1
                  /\ currentLesson' = lessons[currentLessonIndex' + 1]
                  /\ (currentLessonIndex' = Len(lessons) - 1 =>
                         elements'.nextDisabled)
       /\ (phase = "ready" /\ previousLesson) =>
             IF currentLessonIndex <= 0
             THEN UNCHANGED <<currentLessonIndex, currentLesson>>
             ELSE /\ currentLessonIndex' = currentLessonIndex - 1
                  /\ currentLesson' = lessons[currentLessonIndex' + 1]]_vars

\* With the three lessons of ids 1, 2, 3, two next() calls from index 0:
\* the lesson of id 3 is current and the next control is disabled.
C10_Witness ==
    /\ phase = "ready"
    /\ lessons = getSampleLessons
    /\ currentLessonIndex = 2
    /\ currentLesson.id = 3
    /\ elements.nextDisabled
    /\ ~elements.prevDisabled

\* The answer field holds nothing but white space.
BlankInput == \A i \in DOMAIN elements.answer : elements.answer[i] \in Whitespace

\* What a check may change of the practice state.
PracticeState(els) ==
    <<els.answer, els.answerClass, els.feedback, els.checkHidden,
      els.nextPracticeHidden>>

\* C11: a check with input that is empty after trimming is rejected before
\* any comparison: the prompt notification is shown and completedLessons,
\* the answer field, the feedback panel and the check and advance controls
\* are unchanged.
C11_EmptyInputRejected ==
    [][(PracticeVisible /\ BlankInput /\ checkAnswer) =>
          /\ notice' = "Please enter your answer first"
          /\ completedLessons' = completedLessons
          /\ PracticeState(elements') = PracticeState(elements)
          /\ elements' = elements]_vars

\* A blank input was checked after an incorrect answer: the prompt is the
\* last notification and the incorrect feedback still stands.
C11_Witness ==
    /\ PracticeVisible
    /\ notice = "Please enter your answer first"
    /\ elements.answer = Blank
    /\ elements.feedback.kind = "incorrect"
    /\ ~elements.checkHidden

\* The expected answer of a lesson in the selected practice mode.
Expected(els, lesson) == IF els.pinyinChecked THEN lesson.pinyin ELSE lesson.chinese

\* C12: showAnswer writes the current lesson's expected answer, per the
\* selected mode, into the answer field, shows the "answer shown" feedback
\* with that answer, hides the check control and shows the advance control,
\* and leaves completedLessons unchanged.
C12_ShowAnswer ==
    [][(ClickShowAnswer /\ currentLesson # NoLesson) =>
          /\ elements'.answer = Expected(elements, currentLesson)
          /\ elements'.feedback =
                Feedback("shown", << >>, Expected(elements, currentLesson))
          /\ elements'.checkHidden
          /\ ~elements'.nextPracticeHidden
          /\ completedLessons' = completedLessons]_vars

\* The answer of a lesson not yet completed was revealed in chinese mode.
C12_Witness ==
    /\ PracticeVisible
    /\ currentLesson # NoLesson
    /\ ~elements.pinyinChecked
    /\ elements.feedback = Feedback("shown", << >>, currentLesson.chinese)
    /\ elements.answer = currentLesson.chinese
    /\ elements.checkHidden /\ ~elements.nextPracticeHidden
    /\ currentLesson.id \notin completedLessons

\* C13: completedLessons only grows: no step removes an id, and a correct
\* check on a lesson whose id is already in the set leaves the set and its
\* size unchanged.
C13_CompletedOnlyGrows ==
    [][/\ completedLessons \subseteq completedLessons'
       /\ (PracticeVisible /\ currentLesson.id \in completedLessons
              /\ Compares /\ IsCorrect /\ checkAnswer) =>
             /\ completedLessons' = completedLessons
             /\ Cardinality(completedLessons') = Cardinality(completedLessons)]_vars

\* A lesson answered correctly before is shown again in a fresh practice
\* state with a correct answer typed, and an other lesson is completed too.
C13_Witness ==
    /\ PracticeVisible
    /\ currentLesson # NoLesson
    /\ currentLesson.id \in completedLessons
    /\ Cardinality(completedLessons) = 2
    /\ elements.feedback.kind = ""
    /\ ~elements.checkHidden
    /\ Compares /\ IsCorrect

Kinds == {"zh", "fr"}

\* The failure of a request of kind k is surfaced: an error notification is
\* the last one shown, the control of k is enabled, not marked as playing
\* and shows its error label, a timer to reset the label is set, and the
\* controller keeps running.
Surfaced(k) ==
    /\ notice' \in {ErrorNote(j) : j \in Kinds}
    /\ ButtonOf(elements', k).text = ErrorLabel(k)
    /\ ~ButtonOf(elements', k).disabled
    /\ ~ButtonOf(elements', k).playing
    /\ timers'[k] > timers[k]
    /\ phase' = "ready"

\* The HEAD request of task t fails, or play() is refused at once.
CheckFails(t) ==
    \/ \E allowed \in BOOLEAN : FetchDone(t, FALSE, allowed)
    \/ FetchDone(t, TRUE, FALSE)

AudioFails ==
    \/ \E t \in DOMAIN tasks : CheckFails(t)
    \/ \E a \in DOMAIN audios : PlayRejected(a)
    \/ \E a \in DOMAIN audios : audios[a].errorListener /\ AudioError(a)

\* Navigation and practice state: the cursor, the completed set, the
\* visible view, the answer field, the feedback panel and the check and
\* advance controls.
NavigationAndPractice ==
    <<currentLessonIndex, currentLesson, completedLessons,
      elements.studyHidden, elements.practiceHidden, PracticeState(elements)>>

\* C15: an audio failure does not affect navigation or practice state:
\* the step that starts a playback request and the step in which it fails
\* leave currentLessonIndex, currentLesson, completedLessons, the visible
\* view, the answer field, the feedback panel and the check and advance
\* controls unchanged.
C15_AudioFailureFrame ==
    [][(AudioFails \/ ClickPracticePlay) =>
          NavigationAndPractice' = NavigationAndPractice]_vars

\* A request made from the practice view failed at its existence check
\* while an incorrect answer and its feedback were displayed.
C15_Witness ==
    /\ PracticeVisible
    /\ \E t \in DOMAIN tasks : tasks[t].pc = "failed" /\ ~tasks[t].headOk
    /\ notice = ErrorNote("zh")
    /\ elements.audioStatus = "Audio played"
    /\ elements.feedback.kind = "incorrect"
    /\ elements.answer = elements.feedback.user
    /\ ~elements.checkHidden


\* C16: switching the practice mode (pinyin to chinese or back) from any
\* practice state clears the answer input and the feedback, shows the check
\* control and hides the advance control, without changing
\* currentLessonIndex or completedLessons.
C16_ModeSwitchResets ==
    [][ChangePracticeType =>
          /\ elements'.pinyinChecked = ~elements.pinyinChecked
          /\ elements'.answer = << >>
          /\ elements'.answerClass = ""
          /\ elements'.feedback = Feedback("", << >>, << >>)
          /\ ~elements'.checkHidden
          /\ elements'.nextPracticeHidden
          /\ UNCHANGED <<currentLessonIndex, currentLesson, completedLessons>>]_vars

\* The mode was switched to chinese on a lesson answered correctly in
\* pinyin: the practice state is fresh and the lesson stays completed.
C16_Witness ==
    /\ PracticeVisible
    /\ ~elements.pinyinChecked
    /\ currentLesson.id \in completedLessons
    /\ elements.answer = << >>
    /\ elements.feedback.kind = ""
    /\ ~elements.checkHidden /\ elements.nextPracticeHidden


\* C17: after any sequence of enter-practice, exit-practice, keyboard
\* shortcut ('p', Escape) and practice-advance events exactly one of the
\* study view and the practice view is visible.
C17_ExactlyOneView ==
    /\ elements.studyHidden # elements.practiceHidden
    /\ phase = "ready" => (StudyVisible /\ ~PracticeVisible) \/ (PracticeVisible /\ ~StudyVisible)

\* The practice advance at the last lesson has returned to the study view.
C17_Witness ==
    /\ notice = "Congratulations"
    /\ StudyVisible
    /\ ~PracticeVisible
    /\ completedLessons # {}


\* C18: in every state after a lesson has been shown the previous control
\* is disabled exactly when currentLessonIndex is 0, the next control is
\* disabled exactly when currentLessonIndex is lessons.length - 1, and the
\* progress shown is (currentLessonIndex + 1) of lessons.length.
C18_NavigationControls ==
    elements.shown # NoLesson =>
        /\ elements.prevDisabled <=> (currentLessonIndex = 0)
        /\ elements.nextDisabled <=> (currentLessonIndex = Len(lessons) - 1)
        /\ elements.progress = <<currentLessonIndex + 1, Len(lessons)>>

\* The middle lesson of three is shown after the last one was: both
\* controls are enabled and the progress is 2 of 3.
C18_Witness ==
    /\ Len(lessons) = 3
    /\ currentLessonIndex = 1
    /\ elements.shown = lessons[2]
    /\ ~elements.prevDisabled /\ ~elements.nextDisabled
    /\ elements.progress = <<2, 3>>
    /\ completedLessons # {}


\* C19: after startup and after every operation the displayed completed
\* counter equals the size of completedLessons and the displayed total
\* equals the number of records in the lesson store, for every lesson
\* document that loads as well as for the fallback list.
C19_CountersMatch ==
    phase = "ready" =>
        /\ elements.completedCount = Cardinality(completedLessons)
        /\ elements.totalCount = Len(lessons)


\* C20: a French playback request on a lesson with no French audio path
\* reports "no audio available" and attempts nothing: no Audio object is
\* created, no existence check or play is issued, the active playback is
\* neither stopped nor replaced, and no control changes.
C20_NoFrenchAudio ==
    [][(currentLesson.french_audio_file = "" /\ ClickPlayFrench) =>
          /\ notice' = "No French audio available"
          /\ UNCHANGED <<audios, currentAudio, tasks, timers>>
          /\ elements'.playAudioBtn = elements.playAudioBtn
          /\ elements'.playFrenchBtn = elements.playFrenchBtn
          /\ elements' = elements]_vars

\* French audio was requested on a lesson without a French audio path
\* while its Chinese clip was playing: the clip plays on.
C20_Witness ==
    /\ notice = "No French audio available"
    /\ currentLesson # NoLesson
    /\ currentLesson.french # << >>
    /\ currentLesson.french_audio_file = ""
    /\ currentAudio # 0
    /\ audios[currentAudio].st = "playing"
    /\ audios[currentAudio].src = AudioPath(currentLesson.audio_file)
    /\ elements.playAudioBtn.text = "Playing..."


(***************************************************************************)
(* Answer comparison (C21 .. C23).                                         *)
(***************************************************************************)
\* The words of a text: its maximal runs of characters that are not
\* whitespace, each without the characters of punct and in lower case;
\* runs that come out empty are dropped.  word is the run being read.
RECURSIVE WordsFrom(_, _, _)
WordsFrom(text, punct, word) ==
    IF text = << >> THEN IF word = << >> THEN << >> ELSE <<word>>
    ELSE IF Head(text) \in Whitespace
         THEN (IF word = << >> THEN << >> ELSE <<word>>)
              \o WordsFrom(Tail(text), punct, << >>)
         ELSE IF Head(text) \in punct
              THEN WordsFrom(Tail(text), punct, word)
              ELSE WordsFrom(Tail(text), punct,
                             Append(word, ToLowerChar(Head(text))))

\* Two texts are equal after lowercasing, removal of punct, collapse of
\* whitespace runs and trimming exactly when they have the same words.
SameWords(a, b, punct) == WordsFrom(a, punct, << >>) = WordsFrom(b, punct, << >>)

\* The punctuation set as the claim lists it, and as the pattern has it:
\* with the fullwidth comma.
ListedPunctuation == {".", ",", "U+3002", "U+FF01", "U+FF1F", "!", "?"}

PatternPunctuation == ListedPunctuation \cup {"U+FF0C"}

\* The check judged the answer correct / not correct.
JudgedCorrect(els) == els.feedback.kind = "correct"

\* C21 as stated: a check that reaches the comparison judges the answer
\* correct exactly when the answer and the expected text are equal after
\* lowercasing, removal of the punctuation set {. , U+3002 U+FF01 U+FF1F
\* ! ?}, collapse of whitespace runs and trimming.
C21_ListedPunctuationOnly ==
    [][ PracticeVisible /\ Compares /\ checkAnswer
        => (JudgedCorrect(elements')
            <=> SameWords(elements.answer, CorrectAnswer(elements, currentLesson),
                          ListedPunctuation)) ]_vars

\* C21 amended: a check that reaches the comparison judges the answer
\* correct exactly when the answer and the expected text are equal after
\* lowercasing, removal of the punctuation set {. , U+FF0C U+3002 U+FF01
\* U+FF1F ! ?} (the fullwidth comma included), collapse of whitespace runs
\* and trimming; nothing else is folded: the phrase typed in another case,
\* with wider spacing and a full stop is judged correct, the phrase
\* without its diacritics is not.
C21_CompareAnswers ==
    [][ PracticeVisible /\ Compares /\ checkAnswer
        => /\ JudgedCorrect(elements')
              <=> SameWords(elements.answer,
                            CorrectAnswer(elements, currentLesson),
                            PatternPunctuation)
           /\ CorrectAnswer(elements, currentLesson) = PhraseText
              => /\ elements.answer = PhraseTyped => JudgedCorrect(elements')
                 /\ elements.answer = PhraseUnaccented => ~JudgedCorrect(elements') ]_vars

\* An answer that differs from the expected text in case or in a fullwidth
\* comma has been judged correct.
C21_Witness ==
    /\ PracticeVisible
    /\ JudgedCorrect(elements)
    /\ elements.answer # currentLesson.pinyin
    /\ \E i \in DOMAIN elements.answer : elements.answer[i] \in {"U+FF0C", "W"}
    /\ \A i \in DOMAIN currentLesson.pinyin :
          currentLesson.pinyin[i] \notin {"U+FF0C", "W"}
    /\ currentLesson.pinyin # << >>

\* The texts the comparison normalizes in the current state: the answer
\* field and the expected text.
Compared == {elements.answer, CorrectAnswer(elements, currentLesson)}

\* C22: the normalization used by compareAnswers is idempotent: for every
\* text x over letters, the stripped punctuation characters and whitespace,
\* normalize(normalize(x)) = normalize(x).
C22_NormalizeIdempotent ==
    \A x \in Compared : normalize(normalize(x)) = normalize(x)

\* A check has compared an answer that normalization changes in all four
\* ways: it has an upper-case letter or a punctuation character next to
\* whitespace, and whitespace at an end or in a run.
C22_Witness ==
    /\ PracticeVisible
    /\ elements.feedback.kind # ""
    /\ elements.answer \in {PhraseSpacedStop, <<" ", "W">>, <<".", " ">>}
    /\ normalize(elements.answer) # elements.answer
    /\ normalize(elements.feedback.correct) # elements.feedback.correct

\* The answer field holds the current lesson's own text for the selected
\* practice type, as the lesson record has it.
OwnTextEntered ==
    /\ currentLesson # NoLesson
    /\ elements.answer = CorrectAnswer(elements, currentLesson)

\* C23: for every lesson in the store and both practice modes, a check of
\* the lesson's own pinyin (pinyin mode) or own chinese text (chinese mode)
\* judges the answer correct and completes the lesson.
C23_OwnTextIsCorrect ==
    [][ PracticeVisible /\ OwnTextEntered /\ checkAnswer
        => /\ JudgedCorrect(elements')
           /\ currentLesson.id \in completedLessons' ]_vars

\* Own texts have been judged correct in both modes: the chinese text of
\* one lesson is in the answer field, judged correct, and another lesson
\* was completed too.
C23_Witness ==
    /\ PracticeVisible
    /\ ~elements.pinyinChecked
    /\ OwnTextEntered
    /\ JudgedCorrect(elements)
    /\ currentLesson.id \in completedLessons
    /\ Cardinality(completedLessons) > 1

(***************************************************************************)
(* Practice state and the lesson cursor (C24).                             *)
(***************************************************************************)
\* The practice view shows the outcome of a check or a revealed answer.
OutcomeShown ==
    PracticeVisible /\ (elements.feedback.kind # "" \/ ~elements.nextPracticeHidden)

\* C24: practice state always pertains to the current lesson: whenever the
\* practice view shows feedback or the advance control, the expected text
\* the feedback quotes (after a wrong or a revealed answer) is the current
\* lesson's, and a lesson judged correct is the current one, which is
\* completed.
C24_PracticePertainsToLesson ==
    OutcomeShown =>
        /\ elements.feedback.kind \in {"incorrect", "shown"}
           => elements.feedback.correct = CorrectAnswer(elements, currentLesson)
        /\ elements.feedback.kind = "correct"
           => currentLesson.id \in completedLessons

(***************************************************************************)
(* Play controls at rest (C25).                                            *)
(***************************************************************************)
\* No clip is loading or playing and no request is pending.
AudioAtRest ==
    /\ \A a \in DOMAIN audios : ~Active(a)
    /\ \A t \in DOMAIN tasks : tasks[t].pc \notin {"fetch", "play"}

\* A control that can be clicked and does not show Loading or Playing.
Released(button) ==
    /\ ~button.disabled
    /\ ~button.playing
    /\ button.text \notin {"Loading...", "Playing..."}

\* C25: a play control is never left stuck: whenever no clip is loading or
\* playing and no request is pending, the primary and the secondary play
\* control are enabled and not in the Loading/Playing state.
C25_ControlsReleased ==
    AudioAtRest => /\ Released(elements.playAudioBtn)
                   /\ Released(elements.playFrenchBtn)
=============================================================================
